---------------------------- MODULE Spec2Model ----------------------------
(***************************************************************************)
(* Model of src/main.py: the generate -> judge -> refine bedtime story     *)
(* pipeline.  A text of several lines is a sequence of strings, one per    *)
(* line; a single-line text is a string.  The raw content returned by the  *)
(* judge request is carried as its sequence of lexical tokens, each token  *)
(* being its own source text, so that json.loads can be modelled as a      *)
(* parser and the content string can be rebuilt by concatenation.          *)
(***************************************************************************)
EXTENDS Integers, Sequences, FiniteSets, TLC

(***************************************************************************)
(* Bounds of the model.                                                    *)
(***************************************************************************)
\* longest safety_issues / suggestions list of an enumerated well-formed assessment
MaxList == 1
\* longest enumerated token sequence over TokAlphabet
MaxRawLen == 2

(***************************************************************************)
(* Sequence helpers.                                                       *)
(***************************************************************************)
RECURSIVE Join(_, _)
\* sep.join(seq) of Python, for a sequence of strings
Join(sep, seq) ==
    IF seq = <<>> THEN ""
    ELSE IF Len(seq) = 1 THEN seq[1]
    ELSE seq[1] \o sep \o Join(sep, Tail(seq))

RECURSIVE SeqsUpTo(_, _)
\* every sequence over S of length at most n
SeqsUpTo(S, n) ==
    IF n = 0 THEN {<<>>}
    ELSE LET shorter == SeqsUpTo(S, n - 1)
         IN  shorter \cup {Append(q, x) : q \in shorter, x \in S}

Range(seq) == {seq[i] : i \in 1..Len(seq)}

(***************************************************************************)
(* build_story_prompt                                                      *)
(***************************************************************************)
RoleSentence ==
    "You are a storyteller telling a story for a child about the age of 5 to 10 years old."

ReturnOnlyDirective == "Return only the story text without commentary."

BaselineGuidance ==
    << "Write a bedtime story for children aged 5-10.",
       "Use simple, kind language with a clear beginning, middle, and warm resolution.",
       "Keep it gentle: avoid violence, fear, or upsetting themes." >>

LengthDirective(length) == "Target length: " \o length \o "."
NameDirective(character_name) == "The main character is named " \o character_name \o "."
SettingDirective(setting) == "Set the story in " \o setting \o "."
ToneDirective(tone) == "The tone should feel " \o tone \o "."
AdditionalDirective(additional) == "Additional instructions: " \o additional \o "."

\* a mutant of guidance: the name directive is appended before the length directive
guidance_nameFirst(name, length, setting, tone, additional) ==
    BaselineGuidance
      \o (IF name # "" THEN <<NameDirective(name)>> ELSE <<>>)
      \o (IF length # "" THEN <<LengthDirective(length)>> ELSE <<>>)
      \o (IF setting # "" THEN <<SettingDirective(setting)>> ELSE <<>>)
      \o (IF tone # "" THEN <<ToneDirective(tone)>> ELSE <<>>)
      \o (IF additional # "" THEN <<AdditionalDirective(additional)>> ELSE <<>>)

\* the list guidance of build_story_prompt after its five conditional appends
guidance(name, length, setting, tone, additional) ==
    BaselineGuidance
      \o (IF length # "" THEN <<LengthDirective(length)>> ELSE <<>>)
      \o (IF name # "" THEN <<NameDirective(name)>> ELSE <<>>)
      \o (IF setting # "" THEN <<SettingDirective(setting)>> ELSE <<>>)
      \o (IF tone # "" THEN <<ToneDirective(tone)>> ELSE <<>>)
      \o (IF additional # "" THEN <<AdditionalDirective(additional)>> ELSE <<>>)

\* "- " + "\n- ".join(lines): every line becomes a bullet line
Bullets(lines) == [i \in 1..Len(lines) |-> "- " \o lines[i]]

\* the value returned by build_story_prompt, as its lines
build_story_prompt(name, length, setting, tone, additional) ==
    <<RoleSentence>>
      \o Bullets(guidance(name, length, setting, tone, additional))
      \o <<"- " \o ReturnOnlyDirective>>

\* what build_story_prompt prints when its debug parameter is true
StorytellerDebugText(prompt) ==
    <<"[debug] Storyteller prompt:">> \o prompt \o <<"">>

\* the request_context summary built by main
request_context_of(name, length, setting, tone, additional) ==
    "Character: " \o (IF name # "" THEN name ELSE "unspecified") \o "; "
      \o "Length: " \o (IF length # "" THEN length ELSE "unspecified") \o "; "
      \o "Setting: " \o (IF setting # "" THEN setting ELSE "unspecified") \o "; "
      \o "Tone: " \o (IF tone # "" THEN tone ELSE "unspecified") \o "; "
      \o "Additional: " \o (IF additional # "" THEN additional ELSE "unspecified")


(***************************************************************************)
(* Python values: the results of json.loads and what main and refine_story *)
(* do with them.  A dict is the sequence of its <<key, value>> items in    *)
(* insertion order, its keys distinct.                                     *)
(***************************************************************************)
VNone == [t |-> "None"]
VBool(b) == [t |-> "bool", v |-> b]
VInt(n) == [t |-> "int", v |-> n]
VStr(s) == [t |-> "str", v |-> s]
VList(q) == [t |-> "list", v |-> q]
VDict(items) == [t |-> "dict", v |-> items]

\* the keys of the judge's schema
AssessmentKeys ==
    <<"safety_ok", "safety_issues", "quality_score", "justification", "suggestions">>

\* the strings the enumerated judge outputs carry as values
IssueTexts == {"wolf", "dark"}
SuggestionTexts == {"add owl", "shorten"}
JustificationTexts == {"warm"}
ValueStrs == IssueTexts \cup SuggestionTexts \cup JustificationTexts \cup {"", "raw_text"}

\* the characters of each value string, as iterating a Python str yields them
Chars(s) ==
    CASE s = "wolf" -> <<"w", "o", "l", "f">>
      [] s = "dark" -> <<"d", "a", "r", "k">>
      [] s = "add owl" -> <<"a", "d", "d", " ", "o", "w", "l">>
      [] s = "shorten" -> <<"s", "h", "o", "r", "t", "e", "n">>
      [] s = "warm" -> <<"w", "a", "r", "m">>
      [] s = "raw_text" -> <<"r", "a", "w", "_", "t", "e", "x", "t">>
      [] s = "" -> <<>>

\* key in items
DictHas(items, key) == \E i \in 1..Len(items) : items[i][1] = key

\* dict.get(key): the value stored under key, None when there is none
DictGet(items, key) ==
    IF DictHas(items, key)
    THEN items[CHOOSE i \in 1..Len(items) : items[i][1] = key][2]
    ELSE VNone

\* dict[key] = val: a present key keeps its place and takes the new value
DictSet(items, key, val) ==
    IF DictHas(items, key)
    THEN [i \in 1..Len(items) |-> IF items[i][1] = key THEN <<key, val>> ELSE items[i]]
    ELSE Append(items, <<key, val>>)

\* bool(v)
Truthy(val) ==
    CASE val.t = "None" -> FALSE
      [] val.t = "bool" -> val.v
      [] val.t = "int" -> val.v # 0
      [] val.t = "str" -> val.v # ""
      [] val.t = "list" -> val.v # <<>>
      [] val.t = "dict" -> val.v # <<>>

RECURSIVE Repr(_)
\* repr(v)
Repr(val) ==
    CASE val.t = "None" -> "None"
      [] val.t = "bool" -> IF val.v THEN "True" ELSE "False"
      [] val.t = "int" -> ToString(val.v)
      [] val.t = "str" -> "'" \o val.v \o "'"
      [] val.t = "list" ->
            "[" \o Join(", ", [i \in 1..Len(val.v) |-> Repr(val.v[i])]) \o "]"
      [] val.t = "dict" ->
            "{" \o Join(", ", [i \in 1..Len(val.v) |->
                        "'" \o val.v[i][1] \o "': " \o Repr(val.v[i][2])]) \o "}"

\* str(v), which an f-string and print apply
Str(val) == IF val.t = "str" THEN val.v ELSE Repr(val)

\* whether iter(v) succeeds
Iterable(val) == val.t \in {"list", "str", "dict"}

\* the items a for loop over v visits
Items(val) ==
    CASE val.t = "list" -> val.v
      [] val.t = "str" -> [i \in 1..Len(Chars(val.v)) |-> VStr(Chars(val.v)[i])]
      [] val.t = "dict" -> [i \in 1..Len(val.v) |-> VStr(val.v[i][1])]

(***************************************************************************)
(* json.loads over the tokens of the raw text.                             *)
(***************************************************************************)
\* the contents a string literal of an enumerated text can have
StrContents == Range(AssessmentKeys) \cup ValueStrs
\* the integers an enumerated text can carry
NumUniverse == {0, 7, 11}

Quote(s) == "\"" \o s \o "\""
StrLitTokens == {Quote(s) : s \in StrContents}
NumTokens == {ToString(n) : n \in NumUniverse}
Unquote(tok) == CHOOSE s \in StrContents : Quote(s) = tok
NumVal(tok) == CHOOSE n \in NumUniverse : ToString(n) = tok

\* the raw text itself: its tokens separated by single spaces
Text(toks) == Join(" ", toks)

ParseFail == [ok |-> FALSE, val |-> VNone, rest |-> <<>>]
ParseOk(val, rest) == [ok |-> TRUE, val |-> val, rest |-> rest]

RECURSIVE ParseValue(_), ParseElements(_, _), ParseMembers(_, _)
\* a JSON value at the head of toks
ParseValue(toks) ==
    IF toks = <<>> THEN ParseFail
    ELSE LET h == Head(toks)
             r == Tail(toks)
         IN  CASE h = "null" -> ParseOk(VNone, r)
               [] h = "true" -> ParseOk(VBool(TRUE), r)
               [] h = "false" -> ParseOk(VBool(FALSE), r)
               [] h \in NumTokens -> ParseOk(VInt(NumVal(h)), r)
               [] h \in StrLitTokens -> ParseOk(VStr(Unquote(h)), r)
               [] h = "[" ->
                    IF r # <<>> /\ Head(r) = "]"
                    THEN ParseOk(VList(<<>>), Tail(r))
                    ELSE ParseElements(r, <<>>)
               [] h = "{" ->
                    IF r # <<>> /\ Head(r) = "}"
                    THEN ParseOk(VDict(<<>>), Tail(r))
                    ELSE ParseMembers(r, <<>>)
               [] OTHER -> ParseFail

\* the elements of an array after "[" or ",", acc being those already read
ParseElements(toks, acc) ==
    LET e == ParseValue(toks)
    IN  IF ~e.ok \/ e.rest = <<>> THEN ParseFail
        ELSE IF Head(e.rest) = "]" THEN ParseOk(VList(Append(acc, e.val)), Tail(e.rest))
        ELSE IF Head(e.rest) = "," THEN ParseElements(Tail(e.rest), Append(acc, e.val))
        ELSE ParseFail

\* the members of an object after "{" or ",", acc being those already read
ParseMembers(toks, acc) ==
    IF Len(toks) < 2 \/ Head(toks) \notin StrLitTokens \/ toks[2] # ":" THEN ParseFail
    ELSE LET key == Unquote(Head(toks))
             m == ParseValue(Tail(Tail(toks)))
         IN  IF ~m.ok \/ m.rest = <<>> THEN ParseFail
             ELSE IF Head(m.rest) = "}"
                  THEN ParseOk(VDict(DictSet(acc, key, m.val)), Tail(m.rest))
             ELSE IF Head(m.rest) = ","
                  THEN ParseMembers(Tail(m.rest), DictSet(acc, key, m.val))
             ELSE ParseFail

\* json.loads(raw): ok is false where it raises JSONDecodeError
JsonLoads(toks) ==
    LET p == ParseValue(toks)
    IN  IF p.ok /\ p.rest = <<>> THEN [ok |-> TRUE, val |-> p.val]
        ELSE [ok |-> FALSE, val |-> VNone]


RECURSIVE JsonDumps(_)
\* the canonical JSON text of a value, as tokens: the rendering json.loads inverts
JsonDumps(val) ==
    CASE val.t = "None" -> <<"null">>
      [] val.t = "bool" -> IF val.v THEN <<"true">> ELSE <<"false">>
      [] val.t = "int" -> <<ToString(val.v)>>
      [] val.t = "str" -> <<Quote(val.v)>>
      [] val.t = "list" ->
            LET F[i \in 0..Len(val.v)] ==
                    IF i = 0 THEN <<>>
                    ELSE F[i - 1] \o (IF i > 1 THEN <<",">> ELSE <<>>) \o JsonDumps(val.v[i])
            IN  <<"[">> \o F[Len(val.v)] \o <<"]">>
      [] val.t = "dict" ->
            LET F[i \in 0..Len(val.v)] ==
                    IF i = 0 THEN <<>>
                    ELSE F[i - 1] \o (IF i > 1 THEN <<",">> ELSE <<>>)
                           \o <<Quote(val.v[i][1]), ":">> \o JsonDumps(val.v[i][2])
            IN  <<"{">> \o F[Len(val.v)] \o <<"}">>

(***************************************************************************)
(* The texts the judge request is taken to return.                         *)
(***************************************************************************)
\* an assessment of the judge's schema, its five keys in schema order
Structured(ok, issues, score, justification, suggestions) ==
    VDict(<< <<"safety_ok", VBool(ok)>>,
             <<"safety_issues", VList([i \in 1..Len(issues) |-> VStr(issues[i])])>>,
             <<"quality_score", VInt(score)>>,
             <<"justification", VStr(justification)>>,
             <<"suggestions", VList([i \in 1..Len(suggestions) |-> VStr(suggestions[i])])>> >>)

\* the well-formed assessments enumerated: safety_ok says whether there is no issue;
\* 11 is a score outside the nominal 1-10
StructuredAssessments ==
    {Structured(is = <<>>, is, sc, j, su) :
        is \in SeqsUpTo(IssueTexts, MaxList), sc \in {7, 11},
        j \in JustificationTexts, su \in SeqsUpTo(SuggestionTexts, MaxList)}

\* each of them with its rendering
RenderedAssessments == {[val |-> a, toks |-> JsonDumps(a)] : a \in StructuredAssessments}

\* the tokens of the systematically enumerated short texts
TokAlphabet == {"{", "}", "[", "7", "Looks"}

\* {"key": <value tokens>}
Obj1(key, valToks) == <<"{", Quote(key), ":">> \o valToks \o <<"}">>

\* texts chosen one by one: not JSON, JSON that is no object, objects off the schema
OddTexts ==
    { <<"Looks", "fine", "overall.">>,
      <<Quote("warm")>>, <<Quote("raw_text")>>, <<"null">>, <<"true">>, <<"0">>,
      <<"[", "]">>, <<"[", "7", "]">>,
      <<"[", Quote("raw_text"), "]">>, <<"[", "7", ",", "7", "]">>, <<"[", "7", ",", "]">>,
      <<"{", "}", "7">>,
      <<"{", Quote("safety_ok"), ":", "true", ",">>,
      <<"{", Quote("safety_ok"), ":", "true", ",", Quote("safety_issues"), ":", "[">>,
      Obj1("raw_text", <<Quote("warm")>>),
      Obj1("raw_text", <<"7">>),
      <<"{", Quote("raw_text"), ":", Quote("warm"), ",", Quote("quality_score"), ":", "7", "}">>,
      <<"{", Quote("quality_score"), ":", "7", ",", Quote("quality_score"), ":", "11", "}">>,
      Obj1("safety_issues", <<"7">>),
      Obj1("safety_issues", <<Quote("dark")>>),
      Obj1("safety_issues", <<"[", "7", "]">>),
      Obj1("safety_issues", Obj1("wolf", <<"7">>)),
      Obj1("suggestions", <<"7">>),
      Obj1("suggestions", <<"true">>),
      Obj1("suggestions", <<Quote("shorten")>>),
      Obj1("suggestions", <<"[", "7", "]">>),
      Obj1("suggestions", <<"[", Quote("shorten"), "]">>),
      Obj1("quality_score", <<"7">>),
      Obj1("quality_score", <<"0">>),
      Obj1("quality_score", <<"null">>),
      Obj1("quality_score", <<Quote("warm")>>),
      Obj1("quality_score", <<"[", "7", "]">>),
      Obj1("safety_ok", <<"false">>),
      JsonDumps(Structured(TRUE, <<"wolf", "dark">>, 0, "", <<"shorten", "add owl">>)) }

RawTexts ==
    {r.toks : r \in RenderedAssessments}
      \cup OddTexts \cup SeqsUpTo(TokAlphabet, MaxRawLen)

\* resp.choices[0].message.content of the judge request: None, or a text
JudgeContents ==
    {[none |-> TRUE, toks |-> <<>>]} \cup {[none |-> FALSE, toks |-> r] : r \in RawTexts}

\* the texts the generate and the refine request are taken to return
StoryTexts == {"Once upon a time."}
RefinedTexts == {"Once upon a time, gently."}

(***************************************************************************)
(* judge_story                                                             *)
(***************************************************************************)
\* user_blob, the user message of the judge request
user_blob(story, request_context, storyteller_prompt) ==
    <<"Story request/context: " \o request_context, "",
      "Storyteller prompt that produced the story:">>
      \o storyteller_prompt \o <<"", "Story:", story>>

\* what judge_story prints when its debug parameter is true
JudgeDebugText(blob) == <<"", "[debug] Judge input payload:">> \o blob \o <<"">>

\* raw = content or "{}"
RawOf(content) == IF content.none \/ content.toks = <<>> THEN <<"{", "}">> ELSE content.toks

\* a mutant of ParseJudge: a text that is not JSON is dropped, not kept as raw_text
ParseJudge_dropRaw(content) ==
    LET r == JsonLoads(RawOf(content))
    IN  IF r.ok THEN r.val ELSE VDict(<<>>)

\* the value judge_story returns for the content of the response
ParseJudge(content) ==
    LET r == JsonLoads(RawOf(content))
    IN  IF r.ok THEN r.val ELSE VDict(<< <<"raw_text", VStr(Text(RawOf(content)))>> >>)


(***************************************************************************)
(* refine_story: the revision instruction                                  *)
(***************************************************************************)
RevisingSentence == "You are revising a bedtime story using feedback from a judge."

FixedRefineDirectives ==
    << "Rewrite the story to address the judge feedback while keeping it for ages 5-10.",
       "Keep it gentle and positive; avoid violence, fear, or upsetting themes.",
       "Preserve the user's intent and main character/setting.",
       "Use clear, simple language with a beginning, middle, and warm resolution." >>

ReturnRevisedDirective == "Return only the revised story text."

FixIssuesDirective(issueStrs) == "Fix these safety issues: " \o Join(", ", issueStrs) \o "."
ApplySuggestionsLine == "Apply these suggestions:"
TargetScoreDirective(score) == "Target a higher quality score than " \o Str(score) \o "."

\* x or []
OrEmptyList(val) == IF Truthy(val) THEN val ELSE VList(<<>>)

\* a mutant of ScoreForDirective: a score above 10 is clamped to 10
ScoreForDirective_clamped(quality_score) ==
    IF quality_score.t = "int" /\ quality_score.v > 10 THEN VInt(10) ELSE quality_score

\* the score the target directive refers to: quality_score as it is
ScoreForDirective(quality_score) == quality_score

\* the list refine_instructions of refine_story, or the exception building it raises:
\* AttributeError where assessment has no get, TypeError where join or the loop over
\* the suggestions is given what it cannot take
refine_instructions(assessment) ==
    IF assessment.t # "dict" THEN [err |-> "AttributeError", lines |-> <<>>]
    ELSE LET suggestions == OrEmptyList(DictGet(assessment.v, "suggestions"))
             safety_issues == OrEmptyList(DictGet(assessment.v, "safety_issues"))
             quality_score == DictGet(assessment.v, "quality_score")
             issueItems == Items(safety_issues)
             suggItems == Items(suggestions)
         IN  IF Truthy(safety_issues)
                  /\ (~Iterable(safety_issues)
                        \/ \E i \in 1..Len(issueItems) : issueItems[i].t # "str")
             THEN [err |-> "TypeError", lines |-> <<>>]
             ELSE IF Truthy(suggestions) /\ ~Iterable(suggestions)
             THEN [err |-> "TypeError", lines |-> <<>>]
             ELSE [err |-> "None",
                   lines |->
                     FixedRefineDirectives
                       \o (IF Truthy(safety_issues)
                           THEN <<FixIssuesDirective(
                                    [i \in 1..Len(issueItems) |-> issueItems[i].v])>>
                           ELSE <<>>)
                       \o (IF Truthy(suggestions)
                           THEN <<ApplySuggestionsLine>>
                                  \o [i \in 1..Len(suggItems) |-> "- " \o Str(suggItems[i])]
                           ELSE <<>>)
                       \o (IF quality_score # VNone
                           THEN <<TargetScoreDirective(ScoreForDirective(quality_score))>>
                           ELSE <<>>)]

\* the prompt of the refine request, given the instruction lines
refine_prompt(story, instructions, storyteller_prompt) ==
    <<RevisingSentence>> \o storyteller_prompt
      \o <<"", "Judge assessment and instructions:">> \o instructions
      \o <<"", "Original story:", story, "", ReturnRevisedDirective>>

(***************************************************************************)
(* main: the display of the assessment under --debug                       *)
(***************************************************************************)
AssessmentHeading == <<"", "--- Judge Assessment ---">>
RefinedHeading == <<"", "--- Refined Story ---">>

\* "raw_text" in s for a str s of the enumerated texts
ContainsRawText(s) == s = "raw_text"

\* "raw_text" in assessment: "yes", "no", or the TypeError of a value that is no container
RawTextIn(assessment) ==
    CASE assessment.t = "dict" -> IF DictHas(assessment.v, "raw_text") THEN "yes" ELSE "no"
      [] assessment.t = "str" -> IF ContainsRawText(assessment.v) THEN "yes" ELSE "no"
      [] assessment.t = "list" ->
            IF \E i \in 1..Len(assessment.v) : assessment.v[i] = VStr("raw_text")
            THEN "yes" ELSE "no"
      [] OTHER -> "TypeError"

\* the print calls of: if v: print(title); for x in v: print(f"- {x}")
ListBlock(title, val) ==
    IF ~Truthy(val) THEN [err |-> "None", prints |-> <<>>]
    ELSE IF ~Iterable(val) THEN [err |-> "TypeError", prints |-> << <<title>> >>]
    ELSE [err |-> "None",
          prints |-> << <<title>> >>
                       \o [i \in 1..Len(Items(val)) |-> <<"- " \o Str(Items(val)[i])>>]]

\* the else branch of the display: the typed fields of a dict
TypedDisplay(items) ==
    LET first == << <<"Safety OK: " \o Str(DictGet(items, "safety_ok"))>> >>
        issues == ListBlock("Safety issues:", DictGet(items, "safety_issues"))
        score == << <<"Quality score: " \o Str(DictGet(items, "quality_score"))>> >>
        suggs == ListBlock("Suggestions:", DictGet(items, "suggestions"))
    IN  IF issues.err # "None" THEN [err |-> issues.err, prints |-> first \o issues.prints]
        ELSE [err |-> suggs.err, prints |-> first \o issues.prints \o score \o suggs.prints]

\* the print calls of main's display block, and the exception that ends it, if any
DisplayAssessment(assessment) ==
    LET member == RawTextIn(assessment)
        heading == <<AssessmentHeading>>
    IN  CASE member = "TypeError" -> [err |-> "TypeError", prints |-> heading]
          [] member = "yes" ->
                IF assessment.t = "dict"
                THEN [err |-> "None",
                      prints |-> heading \o << <<Str(DictGet(assessment.v, "raw_text"))>> >>]
                ELSE [err |-> "TypeError", prints |-> heading]
          [] member = "no" ->
                IF assessment.t = "dict"
                THEN LET d == TypedDisplay(assessment.v)
                     IN  [err |-> d.err, prints |-> heading \o d.prints]
                ELSE [err |-> "AttributeError", prints |-> heading]


(***************************************************************************)
(* main: one run of the pipeline                                           *)
(***************************************************************************)
VARIABLES
    pc,               \* where main is: the stage about to run or waiting for its response
    error,            \* the exception that ended the run, "None" while there is none
    debug_mode,       \* args.debug
    openai_api_key,   \* args.openai_api_key, "" when the option is not given
    env_api_key,      \* os.getenv("OPENAI_API_KEY"), "" when unset
    character_name, length_input, setting_input, tone_input, additional_input,
    story_prompt,     \* the lines of the storyteller prompt
    response,         \* the generated story
    judge_content,    \* the content of the judge request's response
    assessment,       \* the value judge_story returned
    refined,          \* the refined story
    trace             \* what the run did so far: stages entered, requests, responses, prints

vars ==
    <<pc, error, debug_mode, openai_api_key, env_api_key, character_name, length_input,
      setting_input, tone_input, additional_input, story_prompt, response, judge_content,
      assessment, refined, trace>>

inputs ==
    <<debug_mode, openai_api_key, env_api_key, character_name, length_input, setting_input,
      tone_input, additional_input>>

Stages == <<"BUILD_PROMPT", "GENERATE", "JUDGE", "REFINE", "DONE">>

\* the events of a trace: data is the user message of a request, the text of a print;
\* key is the API key a request is sent with
EvEnter(stage) == [ev |-> "enter", stage |-> stage, key |-> "", data |-> <<>>]
EvRequest(stage, key, message) == [ev |-> "request", stage |-> stage, key |-> key, data |-> message]
EvResponse(stage) == [ev |-> "response", stage |-> stage, key |-> "", data |-> <<>>]
EvFailure(stage) == [ev |-> "failure", stage |-> stage, key |-> "", data |-> <<>>]
EvPrint(stage, text) == [ev |-> "print", stage |-> stage, key |-> "", data |-> text]

\* the print events of a sequence of print calls
EvPrints(stage, texts) == [i \in 1..Len(texts) |-> EvPrint(stage, texts[i])]

\* a mutant of ResolveKey: the environment variable is preferred to the argument
ResolveKey_envFirst(api_key, env) == IF env # "" THEN env ELSE api_key

\* api_key or os.getenv("OPENAI_API_KEY")
ResolveKey(api_key, env) == IF api_key # "" THEN api_key ELSE env

\* the debug argument main passes: False if debug_mode else debug_mode
DebugArg(debug) == IF debug THEN FALSE ELSE debug

request_context ==
    request_context_of(character_name, length_input, setting_input, tone_input,
                       additional_input)

Init ==
    /\ pc = "BUILD_PROMPT"
    /\ error = "None"
    /\ debug_mode \in BOOLEAN
    /\ openai_api_key \in {"", "sk-cli"}
    /\ env_api_key \in {"", "sk-env"}
    /\ character_name \in {"", "Luna"}
    /\ length_input \in {"", "short"}
    /\ setting_input \in {"", "enchanted forest"}
    /\ tone_input \in {"", "calm and cozy"}
    /\ additional_input \in {"", "include a talking owl"}
    /\ story_prompt = <<>>
    /\ response = ""
    /\ judge_content = [none |-> TRUE, toks |-> <<>>]
    /\ assessment = VNone
    /\ refined = ""
    /\ trace = <<>>

\* story_prompt = build_story_prompt(...)
BuildPrompt ==
    /\ pc = "BUILD_PROMPT" /\ error = "None"
    /\ LET prompt == build_story_prompt(character_name, length_input, setting_input,
                                        tone_input, additional_input)
       IN  /\ story_prompt' = prompt
           /\ trace' = trace \o <<EvEnter("BUILD_PROMPT")>>
                         \o (IF DebugArg(debug_mode)
                             THEN <<EvPrint("BUILD_PROMPT", StorytellerDebugText(prompt))>>
                             ELSE <<>>)
    /\ pc' = "GENERATE"
    /\ UNCHANGED <<error, inputs, response, judge_content, assessment, refined>>

\* create_story up to its completion request
CreateStoryCall ==
    /\ pc = "GENERATE" /\ error = "None"
    /\ IF ResolveKey(openai_api_key, env_api_key) = ""
       THEN /\ error' = "ValueError"
            /\ trace' = trace \o <<EvEnter("GENERATE")>>
            /\ pc' = pc
       ELSE /\ trace' = trace \o <<EvEnter("GENERATE"), EvRequest("GENERATE", ResolveKey(openai_api_key, env_api_key),
                                                     story_prompt)>>
            /\ pc' = "GENERATE_WAIT"
            /\ error' = error
    /\ UNCHANGED <<inputs, story_prompt, response, judge_content, assessment, refined>>

\* a mutant of CreateStoryReturns: the generated story is printed without --debug too
CreateStoryReturns_alwaysPrint ==
    /\ pc = "GENERATE_WAIT" /\ error = "None"
    /\ \E story \in StoryTexts :
          /\ response' = story
          /\ trace' = trace \o <<EvResponse("GENERATE"), EvPrint("GENERATE", <<story>>)>>
    /\ pc' = "JUDGE"
    /\ UNCHANGED <<error, inputs, story_prompt, judge_content, assessment, refined>>

\* the completion request of create_story returns; main prints the story under --debug
CreateStoryReturns ==
    /\ pc = "GENERATE_WAIT" /\ error = "None"
    /\ \E story \in StoryTexts :
          /\ response' = story
          /\ trace' = trace \o <<EvResponse("GENERATE")>>
                        \o (IF debug_mode THEN <<EvPrint("GENERATE", <<story>>)>> ELSE <<>>)
    /\ pc' = "JUDGE"
    /\ UNCHANGED <<error, inputs, story_prompt, judge_content, assessment, refined>>

\* the completion request of create_story raises
CreateStoryFails ==
    /\ pc = "GENERATE_WAIT" /\ error = "None"
    /\ error' = "TransportError"
    /\ trace' = trace \o <<EvFailure("GENERATE")>>
    /\ UNCHANGED <<pc, inputs, story_prompt, response, judge_content, assessment, refined>>

\* judge_story up to its completion request
JudgeStoryCall ==
    /\ pc = "JUDGE" /\ error = "None"
    /\ IF ResolveKey(openai_api_key, env_api_key) = ""
       THEN /\ error' = "ValueError"
            /\ trace' = trace \o <<EvEnter("JUDGE")>>
            /\ pc' = pc
       ELSE LET blob == user_blob(response, request_context, story_prompt)
            IN  /\ trace' = trace \o <<EvEnter("JUDGE")>>
                              \o (IF DebugArg(debug_mode)
                                  THEN <<EvPrint("JUDGE", JudgeDebugText(blob))>>
                                  ELSE <<>>)
                              \o <<EvRequest("JUDGE", ResolveKey(openai_api_key, env_api_key), blob)>>
                /\ pc' = "JUDGE_WAIT"
                /\ error' = error
    /\ UNCHANGED <<inputs, story_prompt, response, judge_content, assessment, refined>>

\* the completion request of judge_story returns: the content is parsed, judge_story
\* returns, and main displays the assessment under --debug
JudgeStoryReturns ==
    /\ pc = "JUDGE_WAIT" /\ error = "None"
    /\ \E content \in JudgeContents :
          LET parsed == ParseJudge(content)
              shown == IF debug_mode THEN DisplayAssessment(parsed)
                       ELSE [err |-> "None", prints |-> <<>>]
          IN  /\ judge_content' = content
              /\ assessment' = parsed
              /\ trace' = trace \o <<EvResponse("JUDGE")>> \o EvPrints("JUDGE", shown.prints)
              /\ error' = shown.err
              /\ pc' = IF shown.err = "None" THEN "REFINE" ELSE "DISPLAY"
    /\ UNCHANGED <<inputs, story_prompt, response, refined>>

\* the completion request of judge_story raises
JudgeStoryFails ==
    /\ pc = "JUDGE_WAIT" /\ error = "None"
    /\ error' = "TransportError"
    /\ trace' = trace \o <<EvFailure("JUDGE")>>
    /\ UNCHANGED <<pc, inputs, story_prompt, response, judge_content, assessment, refined>>

\* refine_story up to its completion request
RefineStoryCall ==
    /\ pc = "REFINE" /\ error = "None"
    /\ LET built == refine_instructions(assessment)
       IN  IF ResolveKey(openai_api_key, env_api_key) = ""
           THEN /\ error' = "ValueError"
                /\ trace' = trace \o <<EvEnter("REFINE")>>
                /\ pc' = pc
           ELSE IF built.err # "None"
           THEN /\ error' = built.err
                /\ trace' = trace \o <<EvEnter("REFINE")>>
                /\ pc' = pc
           ELSE /\ trace' = trace \o <<EvEnter("REFINE"),
                                       EvRequest("REFINE", ResolveKey(openai_api_key, env_api_key),
                                               refine_prompt(response, built.lines,
                                                             story_prompt))>>
                /\ pc' = "REFINE_WAIT"
                /\ error' = error
    /\ UNCHANGED <<inputs, story_prompt, response, judge_content, assessment, refined>>

\* a mutant of RefineStoryReturns: the refined story goes back to the judge
RefineStoryReturns_rejudge ==
    /\ pc = "REFINE_WAIT" /\ error = "None"
    /\ LET n == Len(SelectSeq(trace, LAMBDA e : e.ev = "request" /\ e.stage = "REFINE"))
       IN  \E text \in RefinedTexts :
              /\ refined' = text
              /\ response' = IF n < 2 THEN text ELSE response
              /\ trace' = trace \o <<EvResponse("REFINE")>>
                            \o (IF n < 2 THEN <<>>
                                ELSE <<EvPrint("REFINE", <<text>>), EvEnter("DONE")>>)
              /\ pc' = IF n < 2 THEN "JUDGE" ELSE "DONE"
    /\ UNCHANGED <<error, inputs, story_prompt, judge_content, assessment>>

\* a mutant of RefineStoryReturns: the heading is printed without --debug too
RefineStoryReturns_headingAlways ==
    /\ pc = "REFINE_WAIT" /\ error = "None"
    /\ \E text \in RefinedTexts :
          /\ refined' = text
          /\ trace' = trace \o <<EvResponse("REFINE"), EvPrint("REFINE", RefinedHeading),
                                  EvPrint("REFINE", <<text>>), EvEnter("DONE")>>
    /\ pc' = "DONE"
    /\ UNCHANGED <<error, inputs, story_prompt, response, judge_content, assessment>>

\* the completion request of refine_story returns; main prints the refined story
RefineStoryReturns ==
    /\ pc = "REFINE_WAIT" /\ error = "None"
    /\ \E text \in RefinedTexts :
          /\ refined' = text
          /\ trace' = trace \o <<EvResponse("REFINE")>>
                        \o (IF debug_mode THEN <<EvPrint("REFINE", RefinedHeading)>> ELSE <<>>)
                        \o <<EvPrint("REFINE", <<text>>), EvEnter("DONE")>>
    /\ pc' = "DONE"
    /\ UNCHANGED <<error, inputs, story_prompt, response, judge_content, assessment>>

\* the completion request of refine_story raises
RefineStoryFails ==
    /\ pc = "REFINE_WAIT" /\ error = "None"
    /\ error' = "TransportError"
    /\ trace' = trace \o <<EvFailure("REFINE")>>
    /\ UNCHANGED <<pc, inputs, story_prompt, response, judge_content, assessment, refined>>

Next ==
    \/ BuildPrompt
    \/ CreateStoryCall
    \/ CreateStoryReturns
    \/ CreateStoryFails
    \/ JudgeStoryCall
    \/ JudgeStoryReturns
    \/ JudgeStoryFails
    \/ RefineStoryCall
    \/ RefineStoryReturns
    \/ RefineStoryFails

Spec == Init /\ [][Next]_vars


(***************************************************************************)
(* Properties.  What a run did is read off its trace.                      *)
(***************************************************************************)
\* the indices of the events of one kind, in order
IndicesOf(kind) == {i \in 1..Len(trace) : trace[i].ev = kind}
EventsOf(kind) == SelectSeq(trace, LAMBDA e : e.ev = kind)

\* the stages entered, the stages whose request was issued, the texts printed, in order
EnteredStages == [i \in 1..Len(EventsOf("enter")) |-> EventsOf("enter")[i].stage]
RequestedStages == [i \in 1..Len(EventsOf("request")) |-> EventsOf("request")[i].stage]
PrintedTexts == [i \in 1..Len(EventsOf("print")) |-> EventsOf("print")[i].data]

IsPrefix(a, b) == Len(a) <= Len(b) /\ \A i \in 1..Len(a) : a[i] = b[i]

\* the texts printed before / after the i-th event of the trace
PrintedBefore(i) ==
    LET before == SelectSeq(SubSeq(trace, 1, i - 1), LAMBDA e : e.ev = "print")
    IN  [k \in 1..Len(before) |-> before[k].data]
PrintedAfter(i) ==
    LET after == SelectSeq(SubSeq(trace, i + 1, Len(trace)), LAMBDA e : e.ev = "print")
    IN  [k \in 1..Len(after) |-> after[k].data]

JudgeReturned == \E i \in 1..Len(trace) : trace[i] = EvResponse("JUDGE")
NoKeyGiven == openai_api_key = "" /\ env_api_key = ""

\* C1: the stages are entered in the one order BUILD_PROMPT, GENERATE, JUDGE, REFINE,
\* DONE, none skipped and none twice; a stage is entered only when every request issued
\* before has returned; the requests are at most one per stage, in the order generate,
\* judge, refine, each issued inside its own stage; DONE is reached only after every
\* stage was entered and the refine request returned.
C1_StagesInOrder ==
    /\ IsPrefix(EnteredStages, Stages)
    /\ IsPrefix(RequestedStages, <<"GENERATE", "JUDGE", "REFINE">>)
    /\ \A i \in IndicesOf("enter") : \A j \in IndicesOf("request") :
          j < i => \E k \in IndicesOf("response") :
                      j < k /\ k < i /\ trace[k].stage = trace[j].stage
    /\ \A j \in IndicesOf("request") :
          \E i \in IndicesOf("enter") :
             /\ i < j /\ trace[i].stage = trace[j].stage
             /\ \A m \in IndicesOf("enter") : m < j => m <= i
    /\ pc = "DONE" =>
          /\ EnteredStages = Stages
          /\ RequestedStages = <<"GENERATE", "JUDGE", "REFINE">>
          /\ \E k \in IndicesOf("response") :
                trace[k].stage = "REFINE" /\ trace[Len(trace)] = EvEnter("DONE")
                  /\ k < Len(trace)

\* C1 witness: a run that reached DONE after its three requests
C1_Witness == pc = "DONE" /\ Len(EventsOf("request")) = 3 /\ Len(EventsOf("response")) = 3

C3_MalformedJudgeOutputNeverFatal == error \notin {"AttributeError", "TypeError"}

\* C4: with no API key resolvable the first stage reached raises the credential error
\* before any request and nothing is printed; a request is sent with the explicit
\* argument when it is non-empty, with the environment variable otherwise.
C4_CredentialResolution ==
    /\ NoKeyGiven =>
          /\ EventsOf("request") = <<>>
          /\ PrintedTexts = <<>>
          /\ IsPrefix(EnteredStages, <<"BUILD_PROMPT", "GENERATE">>)
          /\ Len(EnteredStages) = 2 => error = "ValueError" /\ pc = "GENERATE"
    /\ error = "ValueError" => NoKeyGiven
    /\ \A i \in IndicesOf("request") :
          /\ trace[i].key # ""
          /\ openai_api_key # "" => trace[i].key = openai_api_key
          /\ openai_api_key = "" => trace[i].key = env_api_key

\* C4 witness: no key at all, and create_story has raised
C4_Witness == NoKeyGiven /\ error = "ValueError" /\ EnteredStages = <<"BUILD_PROMPT", "GENERATE">>


\* whether a value is a list of strings
IsStrList(val) == val.t = "list" /\ \A i \in 1..Len(val.v) : val.v[i].t = "str"

\* the Assessment shape: an object with the five typed fields
HasAssessmentShape(val) ==
    /\ val.t = "dict"
    /\ \A i \in 1..Len(AssessmentKeys) : DictHas(val.v, AssessmentKeys[i])
    /\ DictGet(val.v, "safety_ok").t = "bool"
    /\ IsStrList(DictGet(val.v, "safety_issues"))
    /\ DictGet(val.v, "quality_score").t = "int"
    /\ DictGet(val.v, "justification").t = "str"
    /\ IsStrList(DictGet(val.v, "suggestions"))

\* the raw output of the judge parses into the Assessment shape
ParsesToShape(content) ==
    /\ ~content.none
    /\ JsonLoads(content.toks).ok
    /\ HasAssessmentShape(JsonLoads(content.toks).val)

\* the degraded assessment: the raw text as its single field
Degraded(content) == VDict(<< <<"raw_text", VStr(Text(content.toks))>> >>)

\* C5: whenever the judge's raw output cannot be parsed into the Assessment shape
\* (text that is not JSON, empty output, JSON of another shape), judge_story returns
\* the single raw-text field holding the raw output.
C5_DegradedWheneverOffShape ==
    JudgeReturned /\ ~ParsesToShape(judge_content) => assessment = Degraded(judge_content)

\* C6: the storyteller prompt is the role sentence, then as bullets the three baseline
\* directives, one directive for each non-empty field and none for an empty one, in
\* the order length, character name, setting, tone, additional instructions, then the
\* final return-only directive.
C6_PromptDirectives ==
    pc # "BUILD_PROMPT" =>
        LET conditional ==
                << <<length_input, "- Target length: " \o length_input \o ".">>,
                   <<character_name, "- The main character is named " \o character_name \o ".">>,
                   <<setting_input, "- Set the story in " \o setting_input \o ".">>,
                   <<tone_input, "- The tone should feel " \o tone_input \o ".">>,
                   <<additional_input,
                     "- Additional instructions: " \o additional_input \o ".">> >>
            present == SelectSeq(conditional, LAMBDA c : c[1] # "")
            n == Len(story_prompt)
        IN  /\ n = 5 + Len(present)
            /\ story_prompt[1] =
                 "You are a storyteller telling a story for a child about the age of 5 to 10 years old."
            /\ story_prompt[2] = "- Write a bedtime story for children aged 5-10."
            /\ story_prompt[3] =
                 "- Use simple, kind language with a clear beginning, middle, and warm resolution."
            /\ story_prompt[4] = "- Keep it gentle: avoid violence, fear, or upsetting themes."
            /\ \A i \in 1..Len(present) : story_prompt[4 + i] = present[i][2]
            /\ story_prompt[n] = "- Return only the story text without commentary."
            /\ \A i \in IndicesOf("request") :
                  trace[i].stage = "GENERATE" => trace[i].data = story_prompt

\* C6 witness: a prompt built from length and tone only, the other fields empty
C6_Witness ==
    /\ pc = "GENERATE" /\ length_input # "" /\ tone_input # ""
    /\ character_name = "" /\ setting_input = "" /\ additional_input = ""
    /\ Len(story_prompt) = 7

\* a field of the assessment holds something non-empty
NonEmptyField(key) ==
    LET val == DictGet(assessment.v, key)
    IN  val.t \in {"list", "str", "dict"} /\ Len(val.v) > 0

\* C7: the revision instruction is the revising sentence, the storyteller prompt, the
\* fixed revision directives, the conditional directives, the original story verbatim
\* and the final directive, in that order; the conditional directives are the
\* safety-issues directive listing every issue iff safety_issues is non-empty, the
\* suggestions section with one line per suggestion iff suggestions is non-empty, and
\* the target-score directive naming the quality_score as it is iff the score is
\* present; for a raw-text-only assessment there is none.
C7_RevisionInstruction ==
    \A r \in IndicesOf("request") :
        trace[r].stage = "REFINE" =>
            LET text == trace[r].data
                np == Len(story_prompt)
                middle == SubSeq(text, np + 8, Len(text) - 5)
                issues == DictGet(assessment.v, "safety_issues")
                suggs == DictGet(assessment.v, "suggestions")
                score == DictGet(assessment.v, "quality_score")
                nI == IF NonEmptyField("safety_issues") THEN 1 ELSE 0
                nS == IF NonEmptyField("suggestions") THEN 1 + Len(Items(suggs)) ELSE 0
                nQ == IF score # VNone THEN 1 ELSE 0
            IN  /\ assessment.t = "dict"
                /\ Len(text) >= np + 12
                /\ SubSeq(text, 1, np + 7) =
                     <<"You are revising a bedtime story using feedback from a judge.">>
                       \o story_prompt
                       \o <<"", "Judge assessment and instructions:">>
                       \o FixedRefineDirectives
                /\ SubSeq(text, Len(text) - 4, Len(text)) =
                     <<"", "Original story:", response, "", "Return only the revised story text.">>
                /\ Len(middle) = nI + nS + nQ
                /\ nI = 1 =>
                     middle[1] = "Fix these safety issues: "
                                   \o Join(", ", [i \in 1..Len(Items(issues)) |->
                                                    Items(issues)[i].v]) \o "."
                /\ nS > 0 =>
                     /\ middle[nI + 1] = "Apply these suggestions:"
                     /\ \A i \in 1..Len(Items(suggs)) :
                           middle[nI + 1 + i] = "- " \o Str(Items(suggs)[i])
                /\ nQ = 1 =>
                     middle[Len(middle)] =
                        "Target a higher quality score than " \o Str(score) \o "."
                /\ (\A i \in 1..Len(assessment.v) : assessment.v[i][1] = "raw_text")
                      => middle = <<>>

\* C7 witness: a refine request for an assessment with an issue, a suggestion and the
\* out-of-range score 11
C7_Witness ==
    /\ pc = "REFINE_WAIT"
    /\ HasAssessmentShape(assessment)
    /\ NonEmptyField("safety_issues") /\ NonEmptyField("suggestions")
    /\ DictGet(assessment.v, "quality_score") = VInt(11)

C9_DebugSurfacesPromptAndPayload ==
    \A r \in IndicesOf("request") :
        /\ trace[r].stage = "GENERATE" =>
              (debug_mode <=> \E k \in 1..Len(PrintedBefore(r)) :
                                 PrintedBefore(r)[k] = StorytellerDebugText(trace[r].data))
        /\ trace[r].stage = "JUDGE" =>
              (debug_mode <=> \E k \in 1..Len(PrintedBefore(r)) :
                                 PrintedBefore(r)[k] = JudgeDebugText(trace[r].data))

\* the index of the refine request in the trace of a run that issued it
RefineRequestAt == CHOOSE r \in IndicesOf("request") : trace[r].stage = "REFINE"

=============================================================================
